---- MODULE Spec2Model ----
(***************************************************************************)
(* Cart Store of the ToolWarehouse client (src/contexts/CartContext.tsx).  *)
(*                                                                         *)
(* The in-memory collection `items` is React state.  Every mutation hands  *)
(* React a functional updater; React applies updaters one at a time, in    *)
(* the order they were handed over, each to the result of the previous     *)
(* one, so a mutation is one atomic step on `items`.  The updater itself   *)
(* calls saveCart, which starts an AsyncStorage.setItem that finishes      *)
(* later: operations on the storage are kept in `inflight`, in issue       *)
(* order, and each takes effect on `storage` in the step that completes    *)
(* it.  Which operation completes next, and whether it succeeds, is the    *)
(* storage's choice.                                                       *)
(*                                                                         *)
(* History variables record what the properties speak about (the last      *)
(* step, sums of arguments, the order of completions).  Each is recorded   *)
(* only under the specification that reads it, named by `track`, which no  *)
(* step changes; the program's own variables never depend on it.           *)
(***************************************************************************)
EXTENDS Integers, Sequences, FiniteSets, TLC

(* ---- bounds of the model ---- *)
MaxQty == 2
MaxInflight == 2
(* Session activities under way together when the cart runs beside it. *)
MaxBeside == 1

ProductIds == {"p1", "p2"}
Prices == {10, 20}

StockOf(id) == IF id = "p1" THEN 0 ELSE 2

(* The walk through the store with one product priced 9.99 (prices are in  *)
(* cents there): 2 added, 3 more, set to 1, removed.  IEEE doubles give    *)
(* the same totals: 9.99 * 2 is 19.98, 9.99 * 5 is 49.95, 9.99 * 1 is 9.99. *)
ScenarioQuantities == {2, 3}
ScenarioMaxQty == 2 + 3

(* Product (src/types/index.ts): the fields the cart logic reads or keeps. *)
(* The catalog price of p1 changes between calls; p2 is free of charge     *)
(* (a price is any non-negative number).                                   *)
Catalog ==
  { [id |-> "p1", price |-> p, stock |-> StockOf("p1")] : p \in Prices }
    \cup { [id |-> "p2", price |-> 0, stock |-> StockOf("p2")] }

ScenarioCatalog == { [id |-> "p1", price |-> 999, stock |-> StockOf("p1")] }

CartItem(productId, quantity, product) ==
  [productId |-> productId, quantity |-> quantity, product |-> product]

VARIABLES
  items,          \* useState<CartItem[]>: the in-memory collection
  storage,        \* AsyncStorage slot '@cart_items': [present, text]
  inflight,       \* AsyncStorage operations issued and not yet completed, in issue order
  track,          \* which history is recorded in this behaviour
  ev,             \* history: the step that produced this state
  ref,            \* history: the issued mutations applied one after another
  sumAdded,       \* history: per product, the addToCart calls since its line was absent
  cleared,        \* history: the latest cart operation is a clearCart and it has completed
  healed,         \* history: the write that has just completed, as it was issued
  orderly,        \* history: every storage operation so far succeeded, in issue order
  lastPersisted,  \* history: the collection whose write (or delete) reached the storage last
  roundTrip,      \* history: the persisted collection this store instance was created over
  hydration,      \* history: how the initialization of this store instance went
  stage,          \* history: how many steps of the 9.99 walk have just been made, in a row
  rank            \* history: per product, the place of its line by first insertion (0: no line)

cartVars == <<items, storage, inflight, track, ev, ref, sumAdded, cleared, healed,
              orderly, lastPersisted, roundTrip, hydration, stage, rank>>

(* Session Store (AuthProvider) and the services it talks to. *)
VARIABLES
  user,           \* useState<User | null>: the identity last notified
  userRole,       \* useState: "mechanic", "admin", "null" or "undefined"
  loading,        \* useState(true)
  currentUser,    \* auth provider: the identity signed in
  accounts,       \* auth provider: the identities that have an account
  Users,          \* document store, collection 'Users': per identity "absent", "norole" or a role
  notices,        \* identity-change notifications not yet delivered, in order
  fetches,        \* getDoc calls of notification handlers, not yet completed
  calls,          \* signIn / signUp / signOut calls waiting for the provider or the store
  sev,            \* history: the session step that produced this state
  read            \* history: per identity, what the getDoc of its latest handler read ("": not yet)

sessionVars == <<user, userRole, loading, currentUser, accounts, Users, notices, fetches,
                 calls, sev, read>>

(* Product service (productService.ts) over the document store. *)
VARIABLES
  productDocs,    \* document store, collection 'Products': per document id its data or NoDoc
  reply           \* what the last call of the service gave its caller

serviceVars == <<productDocs, reply>>

(* ProductCatalogScreen (src/app/(tabs)/index.tsx). *)
VARIABLES
  products,         \* useState<Product[]>: the list displayed
  categories,       \* useState<string[]>: the category buttons displayed
  selectedCategory, \* useState<string | null>: "null" or a category
  screenLoading,    \* useState(true): the screen's loading flag
  effects,          \* renders committed whose useEffect has not run yet: their selectedCategory
  productFetches,   \* getProducts calls of loadProducts, not yet completed
  categoryFetches,  \* number of getCategories calls of loadCategories, not yet completed
  settled           \* history: how the loadProducts issued last has ended

screenVars == <<products, categories, selectedCategory, screenLoading, effects,
                productFetches, categoryFetches, settled>>

vars == <<cartVars, sessionVars, serviceVars, screenVars>>

(* ---- inputs of the cart operations ---- *)
(* The walk with the 9.99 product has its own catalog and quantities; the  *)
(* cart beside the session is filled from that catalog by ProductCard,     *)
(* which adds one piece at a time.                                         *)
Products == IF track \in {"walk", "both"} THEN ScenarioCatalog ELSE Catalog
AddQuantities ==
  IF track = "walk" THEN ScenarioQuantities
  ELSE IF track = "both" THEN {1}
  ELSE 1..MaxQty
UpdateQuantities == (0 - 1)..MaxQty
LineQuantities == IF track = "walk" THEN 1..ScenarioMaxQty ELSE 1..MaxQty

(* ---- helpers over sequences ---- *)
RECURSIVE SumSeq(_)
SumSeq(s) == IF s = <<>> THEN 0 ELSE Head(s) + SumSeq(Tail(s))

RemoveAt(s, i) == [j \in 1..(Len(s) - 1) |-> IF j < i THEN s[j] ELSE s[j + 1]]

Lines(cart, id) == { i \in DOMAIN cart : cart[i].productId = id }

(* ---- serialization ---- *)
(* JSON.stringify(cartItems): the array in order, each object written out  *)
(* field by field; the text is kept as the sequence of written values.     *)
JSONstringify(cartItems) ==
  [i \in DOMAIN cartItems |->
     <<cartItems[i].productId, cartItems[i].quantity,
       <<cartItems[i].product.id, cartItems[i].product.price, cartItems[i].product.stock>> >>]

(* JSON.parse(savedCart): objects rebuilt from the written values. *)
JSONparseReversed(text) ==
  [i \in DOMAIN text |->
     CartItem(text[Len(text) + 1 - i][1], text[Len(text) + 1 - i][2],
              [id |-> text[Len(text) + 1 - i][3][1], price |-> text[Len(text) + 1 - i][3][2],
               stock |-> text[Len(text) + 1 - i][3][3]])]
JSONparse(text) ==
  [i \in DOMAIN text |->
     CartItem(text[i][1], text[i][2],
              [id |-> text[i][3][1], price |-> text[i][3][2], stock |-> text[i][3][3]])]

(* JSON.parse throws on a text that was cut short: an object with values missing. *)
JSONparses(text) == \A i \in DOMAIN text : Len(text[i]) = 3

(* A text left in the slot cut short in its first object. *)
Truncated == << <<"p1">> >>

AbsentIsEmptyArray == [present |-> TRUE, text |-> <<>>]
Absent == [present |-> FALSE, text |-> <<>>]
Stored(text) == [present |-> TRUE, text |-> text]

(* What loadCart puts in memory for a given content of the slot: any       *)
(* stored text, "[]" included, is truthy; a text that does not parse       *)
(* leaves the initial empty array.                                         *)
Hydrated(slot) ==
  IF slot.present /\ JSONparses(slot.text) THEN JSONparse(slot.text) ELSE <<>>

(* ---- updaters handed to setItems ---- *)
(* The state a functional updater receives: React's latest state. *)
currentItemsPersisted == Hydrated(storage)
currentItems == items

addToCartAppends(cur, product, quantity) ==
  Append(cur, CartItem(product.id, quantity, product))
addToCartOverwrites(cur, product, quantity) ==
  IF \E i \in DOMAIN cur : cur[i].productId = product.id
  THEN [i \in DOMAIN cur |->
          IF cur[i].productId = product.id
          THEN [cur[i] EXCEPT !.quantity = quantity]
          ELSE cur[i]]
  ELSE Append(cur, CartItem(product.id, quantity, product))
addToCartResnapshots(cur, product, quantity) ==
  IF \E i \in DOMAIN cur : cur[i].productId = product.id
  THEN [i \in DOMAIN cur |->
          IF cur[i].productId = product.id
          THEN CartItem(cur[i].productId, cur[i].quantity + quantity, product)
          ELSE cur[i]]
  ELSE Append(cur, CartItem(product.id, quantity, product))
addToCartPrepends(cur, product, quantity) ==
  IF \E i \in DOMAIN cur : cur[i].productId = product.id
  THEN [i \in DOMAIN cur |->
          IF cur[i].productId = product.id
          THEN [cur[i] EXCEPT !.quantity = cur[i].quantity + quantity]
          ELSE cur[i]]
  ELSE <<CartItem(product.id, quantity, product)>> \o cur
addToCartClamps(cur, product, quantity) ==
  IF \E i \in DOMAIN cur : cur[i].productId = product.id
  THEN [i \in DOMAIN cur |->
          IF cur[i].productId = product.id
          THEN [cur[i] EXCEPT !.quantity = IF cur[i].quantity + quantity > cur[i].product.stock
                                           THEN cur[i].product.stock
                                           ELSE cur[i].quantity + quantity]
          ELSE cur[i]]
  ELSE Append(cur, CartItem(product.id,
                            IF quantity > product.stock THEN product.stock ELSE quantity,
                            product))
addToCartUpdater(cur, product, quantity) ==
  IF \E i \in DOMAIN cur : cur[i].productId = product.id
  THEN [i \in DOMAIN cur |->
          IF cur[i].productId = product.id
          THEN [cur[i] EXCEPT !.quantity = cur[i].quantity + quantity]
          ELSE cur[i]]
  ELSE Append(cur, CartItem(product.id, quantity, product))

removeFromCartDropsRest(cur, productId) ==
  IF Lines(cur, productId) = {} THEN cur
  ELSE SubSeq(cur, 1, (CHOOSE i \in Lines(cur, productId) :
                         \A j \in Lines(cur, productId) : i <= j) - 1)
removeFromCartUpdater(cur, productId) ==
  SelectSeq(cur, LAMBDA item : item.productId # productId)

setQuantityIncrements(cur, productId, quantity) ==
  [i \in DOMAIN cur |->
     IF cur[i].productId = productId
     THEN [cur[i] EXCEPT !.quantity = @ + quantity]
     ELSE cur[i]]
setQuantityUpdater(cur, productId, quantity) ==
  [i \in DOMAIN cur |->
     IF cur[i].productId = productId
     THEN [cur[i] EXCEPT !.quantity = quantity]
     ELSE cur[i]]

(* updateQuantity: below 1 it is removeFromCart, otherwise the quantity is set. *)
updateQuantityZeroKept(cur, productId, quantity) ==
  IF quantity < 0
  THEN removeFromCartUpdater(cur, productId)
  ELSE setQuantityUpdater(cur, productId, quantity)
updateQuantityUpdater(cur, productId, quantity) ==
  IF quantity < 1
  THEN removeFromCartUpdater(cur, productId)
  ELSE setQuantityUpdater(cur, productId, quantity)

(* ---- derived values ---- *)
totalItemsCountsLines(cart) == Len(cart)
totalItemsOf(cart) == SumSeq([i \in DOMAIN cart |-> cart[i].quantity])
totalPriceIgnoresQuantity(cart) == SumSeq([i \in DOMAIN cart |-> cart[i].product.price])
totalPriceOf(cart) == SumSeq([i \in DOMAIN cart |-> cart[i].product.price * cart[i].quantity])
totalItems == totalItemsOf(items)
totalPrice == totalPriceOf(items)

(* ---- storage operations ---- *)
Kinds(k) == { i \in DOMAIN inflight : inflight[i].kind = k }

(* The writes and deletes in flight; a cart operation is taken while fewer *)
(* than MaxInflight are.                                                   *)
Writes == Cardinality(Kinds("set") \cup Kinds("remove"))

(* History kept with an operation, under "heal" (last also under "clear"): *)
(* clean: no write was in flight when it was issued; quiet: no storage     *)
(* operation at all was; stale: the slot then differed from memory;        *)
(* last: no cart operation has been issued since.                          *)
Flags ==
  [clean |-> track = "heal" /\ Kinds("set") = {},
   quiet |-> track = "heal" /\ inflight = <<>>,
   stale |-> track = "heal" /\ storage # Stored(JSONstringify(items)),
   last  |-> track \in {"heal", "clear"}]

NoFlags == [clean |-> FALSE, quiet |-> FALSE, stale |-> FALSE, last |-> FALSE]

(* saveCart(cartItems): one AsyncStorage.setItem of the serialized array. *)
saveCartBefore(cartItems) ==
  [kind |-> "set", text |-> JSONstringify(items), cart |-> items, flags |-> Flags]
saveCart(cartItems) ==
  [kind |-> "set", text |-> JSONstringify(cartItems), cart |-> cartItems, flags |-> Flags]

removeItem == [kind |-> "remove", text |-> <<>>, cart |-> <<>>, flags |-> Flags]

getItem == [kind |-> "get", text |-> <<>>, cart |-> <<>>, flags |-> NoFlags]

(* A later cart operation has been issued: earlier operations are no longer the last. *)
Superseded(ops) == [i \in DOMAIN ops |-> [ops[i] EXCEPT !.flags.last = FALSE]]

IssueOnce(op) ==
  IF \E i \in DOMAIN inflight : inflight[i].text = op.text /\ inflight[i].kind = op.kind
  THEN Superseded(inflight)
  ELSE Append(Superseded(inflight), op)
Issue(op) == Append(Superseded(inflight), op)

(* What leaves saveCart when its write fails: the catch logs and rethrows nothing. *)
saveCartRethrows == "saveCart"
saveCartCatch == ""

(* What leaves loadCart when its read or JSON.parse fails: the same. *)
loadCartRethrows == "loadCart"
loadCartCatch == ""

(* ---- history ---- *)
Rec(mode, new, old) == IF track = mode THEN new ELSE old

(* Places by first insertion, recorded under "calls": a new line takes the *)
(* place after the lines present, a removed line gives its place up and    *)
(* the later ones move down, a hydrated snapshot brings its own places.    *)
NoRank == [p \in ProductIds |-> 0]
Inserted(p) ==
  IF rank[p] # 0 THEN rank
  ELSE [rank EXCEPT ![p] = Cardinality({q \in ProductIds : rank[q] # 0}) + 1]
Withdrawn(p) ==
  IF rank[p] = 0 THEN rank
  ELSE [q \in ProductIds |->
          IF q = p THEN 0 ELSE IF rank[q] > rank[p] THEN rank[q] - 1 ELSE rank[q]]
Brought(cart) ==
  [p \in ProductIds |->
     IF Lines(cart, p) = {} THEN 0 ELSE CHOOSE i \in Lines(cart, p) : TRUE]

(* The step that produced the state: its name and arguments; before it, the *)
(* collection, the number of storage operations in flight and whether the   *)
(* slot held a text; the caller whose promise it rejected, the message it   *)
(* logged.                                                                  *)
Step(name, productId, quantity, price, rejected, logged) ==
  [name |-> name, productId |-> productId, quantity |-> quantity, price |-> price,
   before |-> items, pending |-> Len(inflight), stored |-> storage.present,
   rejected |-> rejected, logged |-> logged]

NoHeal == [done |-> FALSE, clean |-> FALSE, alone |-> FALSE, stale |-> FALSE]

Untracked == [sum |-> 0 - 1, n |-> 0]
Fresh == [sum |-> 0, n |-> 0]

(* Initialization of a store instance, recorded under "init": reading      *)
(* until its getItem settles (pristine while no cart operation has been    *)
(* issued), ended in the state where loadCart returns, over afterwards.    *)
Reading == [phase |-> "reading", outcome |-> "", pristine |-> TRUE, before |-> <<>>,
            surfaced |-> "", logged |-> ""]
Over == [Reading EXCEPT !.phase = "over"]
Ended(outcome, surfaced, logged) ==
  [phase |-> "ended", outcome |-> outcome, pristine |-> hydration.pristine,
   before |-> items, surfaced |-> surfaced, logged |-> logged]
Meanwhile(mutation) ==
  Rec("init", IF hydration.phase = "reading"
              THEN [hydration EXCEPT !.pristine = @ /\ ~mutation]
              ELSE Over, hydration)

(* ---- product service: values ---- *)
DocIds == {"d1", "d2", "d3"}
NoDoc == [exists |-> FALSE]
NoReply == [call |-> "", arg |-> "", outcome |-> "", value |-> <<>>, thrown |-> "", logged |-> ""]

(* No catalog screen is mounted. *)
NoScreen ==
  /\ products = <<>>
  /\ categories = <<>>
  /\ selectedCategory = "null"
  /\ screenLoading = TRUE
  /\ effects = <<>>
  /\ productFetches = <<>>
  /\ categoryFetches = 0
  /\ settled = "none"

(* No product service is being called. *)
NoService ==
  /\ productDocs = [d \in DocIds |-> NoDoc]
  /\ reply = NoReply

(* ---- Session Store: values ---- *)
Uids == {"u1", "u2"}
Roles == {"mechanic", "admin"}

(* What the provider or the document store rejects a call with. *)
Errors == {"auth/network-request-failed", "permission-denied"}

(* userRole is none when it is null or, after a document without a role    *)
(* field, undefined.                                                       *)
IsNone(role) == role \in {"null", "undefined"}

NoStep == [name |-> "", uid |-> "null", thrown |-> "", surfaced |-> "", role |-> "null",
           fetching |-> 0, docs |-> [u \in Uids |-> "absent"], auth |-> 0, doc |-> 0]

NoRead == [u \in Uids |-> ""]

(* AuthProvider as constructed: no identity, no role, loading; subscribed.  *)
(* The provider holds the identity restored at process start and notifies  *)
(* it first.                                                               *)
AuthProviderOver(restored, existing, profiles) ==
  /\ user = "null"
  /\ userRole = "null"
  /\ loading = TRUE
  /\ currentUser = restored
  /\ accounts = existing
  /\ Users = profiles
  /\ notices = <<restored>>
  /\ fetches = <<>>
  /\ calls = <<>>
  /\ sev = [NoStep EXCEPT !.docs = profiles]
  /\ read = NoRead

(* The cart on its own: no session is running beside it. *)
NoSession ==
  /\ user = "null"
  /\ userRole = "null"
  /\ loading = TRUE
  /\ currentUser = "null"
  /\ accounts = {}
  /\ Users = [u \in Uids |-> "absent"]
  /\ notices = <<>>
  /\ fetches = <<>>
  /\ calls = <<>>
  /\ sev = NoStep
  /\ read = NoRead

(* The snapshots a store can find at its first start: none, one left by an *)
(* earlier run, one cut short.                                             *)
Snapshots ==
  {Absent, Stored(Truncated)}
    \cup { Stored(JSONstringify(<<CartItem(product.id, 1, product)>>)) : product \in Catalog }

CartProviderOver(mode, slot) ==
  /\ items = <<>>
  /\ storage = slot
  /\ inflight = <<getItem>>
  /\ track = mode
  /\ hydration = Reading
  /\ stage = 0
  /\ rank = NoRank
  /\ ev = [name |-> "mount", productId |-> "", quantity |-> 0, price |-> 0,
           before |-> <<>>, pending |-> 0, stored |-> FALSE, rejected |-> "", logged |-> ""]
  /\ ref = <<>>
  /\ sumAdded = [p \in ProductIds |-> Fresh]
  /\ cleared = FALSE
  /\ healed = NoHeal
  /\ orderly = TRUE
  /\ lastPersisted = Hydrated(slot)
  /\ roundTrip = [settled |-> FALSE, cart |-> <<>>]

InitOver(mode, slot) == CartProviderOver(mode, slot) /\ NoSession /\ NoService /\ NoScreen

InitOf(mode) == InitOver(mode, Absent)

Init == InitOf("calls")

(* ---- cart operations ---- *)
addToCart(product, quantity) ==
  /\ Writes < MaxInflight
  /\ \A i \in Lines(items, product.id) : items[i].quantity + quantity \in LineQuantities
  /\ items' = addToCartUpdater(currentItems, product, quantity)
  /\ inflight' = Issue(saveCart(items'))
  /\ ev' = Rec("calls", Step("addToCart", product.id, quantity, product.price, "", ""), ev)
  /\ ref' = addToCartUpdater(ref, product, quantity)
  /\ rank' = Rec("calls", Inserted(product.id), rank)
  /\ hydration' = Meanwhile(TRUE)
  /\ stage' = Rec("walk", IF items = <<>> /\ product.id = "p1" /\ quantity = 2 THEN 1
                           ELSE IF stage = 1 /\ product.id = "p1" /\ quantity = 3 THEN 2
                           ELSE 0, stage)
  /\ sumAdded' = Rec("sum", [sumAdded EXCEPT ![product.id] =
                               IF @.sum >= 0 THEN [sum |-> @.sum + quantity, n |-> @.n + 1]
                               ELSE @], sumAdded)
  /\ cleared' = FALSE
  /\ healed' = NoHeal
  /\ roundTrip' = [settled |-> FALSE, cart |-> <<>>]
  /\ UNCHANGED <<storage, track, orderly, lastPersisted>>
  /\ UNCHANGED <<sessionVars, serviceVars, screenVars>>

removeFromCart(productId) ==
  /\ Writes < MaxInflight
  /\ items' = removeFromCartUpdater(currentItems, productId)
  /\ inflight' = Issue(saveCart(items'))
  /\ ev' = Rec("calls", Step("removeFromCart", productId, 0, 0, "", ""), ev)
  /\ ref' = removeFromCartUpdater(ref, productId)
  /\ rank' = Rec("calls", Withdrawn(productId), rank)
  /\ hydration' = Meanwhile(TRUE)
  /\ stage' = Rec("walk", IF stage = 3 /\ productId = "p1" THEN 4 ELSE 0, stage)
  /\ sumAdded' = Rec("sum", [sumAdded EXCEPT ![productId] = Fresh], sumAdded)
  /\ cleared' = FALSE
  /\ healed' = NoHeal
  /\ roundTrip' = [settled |-> FALSE, cart |-> <<>>]
  /\ UNCHANGED <<storage, track, orderly, lastPersisted>>
  /\ UNCHANGED <<sessionVars, serviceVars, screenVars>>

updateQuantity(productId, quantity) ==
  /\ Writes < MaxInflight
  /\ items' = updateQuantityUpdater(currentItems, productId, quantity)
  /\ inflight' = Issue(saveCart(items'))
  /\ ev' = Rec("calls", Step("updateQuantity", productId, quantity, 0, "", ""), ev)
  /\ ref' = updateQuantityUpdater(ref, productId, quantity)
  /\ rank' = Rec("calls", IF quantity < 1 THEN Withdrawn(productId) ELSE rank, rank)
  /\ hydration' = Meanwhile(TRUE)
  /\ stage' = Rec("walk", IF stage = 2 /\ productId = "p1" /\ quantity = 1 THEN 3 ELSE 0, stage)
  /\ sumAdded' = Rec("sum", [sumAdded EXCEPT ![productId] =
                               IF Lines(items', productId) = {} THEN Fresh ELSE Untracked],
                     sumAdded)
  /\ cleared' = FALSE
  /\ healed' = NoHeal
  /\ roundTrip' = [settled |-> FALSE, cart |-> <<>>]
  /\ UNCHANGED <<storage, track, orderly, lastPersisted>>
  /\ UNCHANGED <<sessionVars, serviceVars, screenVars>>

clearCart ==
  /\ Writes < MaxInflight
  /\ items' = <<>>
  /\ inflight' = Issue(removeItem)
  /\ ev' = Rec("calls", Step("clearCart", "", 0, 0, "", ""), ev)
  /\ ref' = <<>>
  /\ rank' = NoRank
  /\ hydration' = Meanwhile(TRUE)
  /\ stage' = 0
  /\ sumAdded' = [p \in ProductIds |-> Fresh]
  /\ cleared' = FALSE
  /\ healed' = NoHeal
  /\ roundTrip' = [settled |-> FALSE, cart |-> <<>>]
  /\ UNCHANGED <<storage, track, orderly, lastPersisted>>
  /\ UNCHANGED <<sessionVars, serviceVars, screenVars>>

(* ---- completions of storage operations ---- *)
setItemDone(i) ==
  /\ i \in Kinds("set")
  /\ storage' = Stored(inflight[i].text)
  /\ inflight' = RemoveAt(inflight, i)
  /\ ev' = Rec("calls", Step("setItemDone", "", 0, 0, "", ""), ev)
  /\ healed' = Rec("heal", [done |-> TRUE,
                            clean |-> inflight[i].flags.clean,
                            alone |-> inflight[i].flags.quiet /\ inflight[i].flags.last,
                            stale |-> inflight[i].flags.stale], healed)
  /\ orderly' = Rec("order", orderly /\ i = 1, orderly)
  /\ lastPersisted' = inflight[i].cart
  /\ hydration' = Meanwhile(FALSE)
  /\ UNCHANGED <<items, track, ref, sumAdded, cleared, roundTrip, stage, rank>>
  /\ UNCHANGED <<sessionVars, serviceVars, screenVars>>

setItemFail(i) ==
  /\ i \in Kinds("set")
  /\ inflight' = RemoveAt(inflight, i)
  /\ ev' = Rec("calls", Step("setItemFail", "", 0, 0, saveCartCatch, "Error saving cart:"), ev)
  /\ healed' = NoHeal
  /\ orderly' = Rec("order", FALSE, orderly)
  /\ hydration' = Meanwhile(FALSE)
  /\ UNCHANGED <<items, storage, track, ref, sumAdded, cleared, lastPersisted, roundTrip, stage, rank>>
  /\ UNCHANGED <<sessionVars, serviceVars, screenVars>>

(* clearCart after its removeItem resolved. *)
removeItemDone(i) ==
  /\ i \in Kinds("remove")
  /\ storage' = Absent
  /\ inflight' = RemoveAt(inflight, i)
  /\ ev' = Rec("calls", Step("removeItemDone", "", 0, 0, "", ""), ev)
  /\ cleared' = Rec("clear", cleared \/ inflight[i].flags.last, cleared)
  /\ healed' = NoHeal
  /\ orderly' = Rec("order", orderly /\ i = 1, orderly)
  /\ lastPersisted' = <<>>
  /\ hydration' = Meanwhile(FALSE)
  /\ UNCHANGED <<items, track, ref, sumAdded, roundTrip, stage, rank>>
  /\ UNCHANGED <<sessionVars, serviceVars, screenVars>>

(* clearCart after its removeItem rejected: nothing catches it. *)
removeItemFail(i) ==
  /\ i \in Kinds("remove")
  /\ inflight' = RemoveAt(inflight, i)
  /\ ev' = Rec("calls", Step("removeItemFail", "", 0, 0, "clearCart", ""), ev)
  /\ healed' = NoHeal
  /\ orderly' = Rec("order", FALSE, orderly)
  /\ hydration' = Meanwhile(FALSE)
  /\ UNCHANGED <<items, storage, track, ref, sumAdded, cleared, lastPersisted, roundTrip, stage, rank>>
  /\ UNCHANGED <<sessionVars, serviceVars, screenVars>>

(* loadCart after its getItem resolved. *)
loadCart(i) ==
  /\ i \in Kinds("get")
  /\ inflight' = RemoveAt(inflight, i)
  /\ items' = IF storage.present /\ JSONparses(storage.text)
               THEN JSONparse(storage.text)
               ELSE items
  /\ ev' = Rec("calls", IF storage.present /\ ~JSONparses(storage.text)
                        THEN Step("loadCart", "", 0, 0, loadCartCatch, "Error loading cart:")
                        ELSE Step("loadCart", "", 0, 0, "", ""), ev)
  /\ hydration' = Rec("init",
                      IF ~storage.present THEN Ended("absent", "", "")
                      ELSE IF JSONparses(storage.text) THEN Ended("snapshot", "", "")
                      ELSE Ended("corrupt", loadCartCatch, "Error loading cart:"),
                      hydration)
  /\ stage' = IF items' = items THEN stage ELSE 0
  /\ ref' = items'
  /\ rank' = Rec("calls", IF storage.present /\ JSONparses(storage.text)
                          THEN Brought(items') ELSE rank, rank)
  /\ sumAdded' = Rec("sum", IF storage.present
                            THEN [p \in ProductIds |->
                                    IF Lines(items', p) = {} THEN Fresh ELSE Untracked]
                            ELSE sumAdded, sumAdded)
  /\ healed' = NoHeal
  /\ orderly' = Rec("order", orderly /\ i = 1, orderly)
  /\ UNCHANGED <<storage, track, cleared, lastPersisted, roundTrip>>
  /\ UNCHANGED <<sessionVars, serviceVars, screenVars>>

(* loadCart after its getItem rejected: the catch logs. *)
getItemFail(i) ==
  /\ i \in Kinds("get")
  /\ inflight' = RemoveAt(inflight, i)
  /\ ev' = Rec("calls", Step("getItemFail", "", 0, 0, loadCartCatch, "Error loading cart:"), ev)
  /\ hydration' = Rec("init", Ended("rejected", loadCartCatch, "Error loading cart:"), hydration)
  /\ healed' = NoHeal
  /\ orderly' = Rec("order", FALSE, orderly)
  /\ roundTrip' = [settled |-> FALSE, cart |-> <<>>]
  /\ UNCHANGED <<items, storage, track, ref, sumAdded, cleared, lastPersisted, stage, rank>>
  /\ UNCHANGED <<sessionVars, serviceVars, screenVars>>

(* A new CartProvider is mounted over the same storage (process restart),  *)
(* once the writes of the previous instance have settled: empty state,     *)
(* loadCart started.  The previous instance's own read is gone with it.    *)
CartProvider ==
  /\ Writes = 0
  /\ items' = <<>>
  /\ inflight' = <<getItem>>
  /\ ev' = Rec("calls", Step("mount", "", 0, 0, "", ""), ev)
  /\ hydration' = Rec("init", Reading, hydration)
  /\ stage' = 0
  /\ ref' = <<>>
  /\ rank' = NoRank
  /\ sumAdded' = [p \in ProductIds |-> Fresh]
  /\ healed' = NoHeal
  /\ orderly' = TRUE
  /\ roundTrip' = Rec("trip", [settled |-> TRUE, cart |-> lastPersisted], roundTrip)
  /\ UNCHANGED <<storage, track, cleared, lastPersisted>>
  /\ UNCHANGED <<sessionVars, serviceVars, screenVars>>

Next ==
  \/ \E product \in Products, quantity \in AddQuantities : addToCart(product, quantity)
  \/ \E productId \in ProductIds : removeFromCart(productId)
  \/ \E productId \in ProductIds, quantity \in UpdateQuantities : updateQuantity(productId, quantity)
  \/ clearCart
  \/ \E i \in DOMAIN inflight : setItemDone(i)
  \/ \E i \in DOMAIN inflight : setItemFail(i)
  \/ \E i \in DOMAIN inflight : removeItemDone(i)
  \/ \E i \in DOMAIN inflight : removeItemFail(i)
  \/ \E i \in DOMAIN inflight : loadCart(i)
  \/ \E i \in DOMAIN inflight : getItemFail(i)
  \/ CartProvider

(* Spec records the steps; the others record the history their names say. *)
Spec == Init /\ [][Next]_vars
SpecSum == InitOf("sum") /\ [][Next]_vars
SpecClear == InitOf("clear") /\ [][Next]_vars
SpecHeal == InitOf("heal") /\ [][Next]_vars
SpecOrder == InitOf("order") /\ [][Next]_vars
SpecTrip == InitOf("trip") /\ [][Next]_vars
SpecWalk == InitOf("walk") /\ [][Next]_vars

(* The first start of a store over whatever an earlier run left in the slot. *)
SpecInit == (\E slot \in Snapshots : InitOver("init", slot)) /\ [][Next]_vars

(***************************************************************************)
(* Session Store (AuthProvider, src/components/ProductCard.tsx 113-172).   *)
(*                                                                         *)
(* The provider delivers identity-change notifications one at a time, in   *)
(* order, and only when the identity signed in changes.  The handler sets  *)
(* user and, for an identity, starts a getDoc of its profile; it goes on   *)
(* when the getDoc completes, and the getDocs of overlapping handlers      *)
(* complete in any order.  signIn, signUp and signOut wait for the         *)
(* provider (signUp then for the document store), which may reject.        *)
(***************************************************************************)
Pending == Len(calls) + Len(notices) + Len(fetches)

(* An intent is issued while at most MaxPending calls, notifications and   *)
(* getDocs are under way: MaxInflight, and MaxBeside beside the cart.      *)
MaxPending == IF track = "both" THEN MaxBeside ELSE MaxInflight

NoCall == [intent |-> "", uid |-> "null", phase |-> "", auth |-> 0, doc |-> 0]

(* The session step that produced the state: its name, the call or the     *)
(* identity it is about, the error the service rejected with and the one   *)
(* the caller received; before it, the role, the number of getDocs in      *)
(* flight and the profile documents.                                       *)
SessionStep(name, call, thrown, surfaced) ==
  [name |-> name, uid |-> call.uid, thrown |-> thrown, surfaced |-> surfaced,
   role |-> userRole, fetching |-> Len(fetches), docs |-> Users,
   auth |-> call.auth, doc |-> call.doc]

About(uid) == [NoCall EXCEPT !.uid = uid]

(* catch (error) { throw error }: the caller receives what was caught. *)
RethrownWrapped(error) == "Error: " \o error
Rethrown(error) == error

(* role: 'mechanic' in the document signUp writes. *)
DefaultRoleAdmin == "admin"
DefaultRole == "mechanic"

(* The provider notifies its subscriber when the identity signed in changes. *)
Notified(uid) == IF uid # currentUser THEN Append(notices, uid) ELSE notices

signIn(uid) ==
  /\ Pending <= MaxPending
  /\ calls' = Append(calls, [intent |-> "signIn", uid |-> uid, phase |-> "auth",
                              auth |-> 1, doc |-> 0])
  /\ sev' = Rec("session", SessionStep("signIn", About(uid), "", ""), sev)
  /\ UNCHANGED <<user, userRole, loading, currentUser, accounts, Users, notices, fetches>>
  /\ UNCHANGED <<read, cartVars, serviceVars, screenVars>>

signUp(uid) ==
  /\ Pending <= MaxPending
  /\ calls' = Append(calls, [intent |-> "signUp", uid |-> uid, phase |-> "auth",
                              auth |-> 1, doc |-> 0])
  /\ sev' = Rec("session", SessionStep("signUp", About(uid), "", ""), sev)
  /\ UNCHANGED <<user, userRole, loading, currentUser, accounts, Users, notices, fetches>>
  /\ UNCHANGED <<read, cartVars, serviceVars, screenVars>>

signOut ==
  /\ Pending <= MaxPending
  /\ calls' = Append(calls, [intent |-> "signOut", uid |-> "null", phase |-> "auth",
                              auth |-> 1, doc |-> 0])
  /\ sev' = Rec("session", SessionStep("signOut", NoCall, "", ""), sev)
  /\ UNCHANGED <<user, userRole, loading, currentUser, accounts, Users, notices, fetches>>
  /\ UNCHANGED <<read, cartVars, serviceVars, screenVars>>

(* signInWithEmailAndPassword resolved: the account exists. *)
signInDone(i) ==
  /\ i \in DOMAIN calls
  /\ calls[i].intent = "signIn"
  /\ calls[i].uid \in accounts
  /\ currentUser' = calls[i].uid
  /\ notices' = Notified(calls[i].uid)
  /\ calls' = RemoveAt(calls, i)
  /\ sev' = Rec("session", SessionStep("signInDone", calls[i], "", ""), sev)
  /\ UNCHANGED <<user, userRole, loading, accounts, Users, fetches>>
  /\ UNCHANGED <<read, cartVars, serviceVars, screenVars>>

(* createUserWithEmailAndPassword resolved: a new account, signed in; signUp goes on to setDoc. *)
signUpCreated(i) ==
  /\ i \in DOMAIN calls
  /\ calls[i].intent = "signUp"
  /\ calls[i].phase = "auth"
  /\ calls[i].uid \notin accounts
  /\ accounts' = accounts \cup {calls[i].uid}
  /\ currentUser' = calls[i].uid
  /\ notices' = Notified(calls[i].uid)
  /\ calls' = [calls EXCEPT ![i].phase = "doc", ![i].doc = @ + 1]
  /\ sev' = Rec("session", SessionStep("signUpCreated", calls[i], "", ""), sev)
  /\ UNCHANGED <<user, userRole, loading, Users, fetches>>
  /\ UNCHANGED <<read, cartVars, serviceVars, screenVars>>

(* setDoc resolved: signUp returns. *)
signUpDone(i) ==
  /\ i \in DOMAIN calls
  /\ calls[i].intent = "signUp"
  /\ calls[i].phase = "doc"
  /\ Users' = [Users EXCEPT ![calls[i].uid] = DefaultRole]
  /\ calls' = RemoveAt(calls, i)
  /\ sev' = Rec("session", SessionStep("signUpDone", calls[i], "", ""), sev)
  /\ UNCHANGED <<user, userRole, loading, currentUser, accounts, notices, fetches>>
  /\ UNCHANGED <<read, cartVars, serviceVars, screenVars>>

(* firebaseSignOut resolved. *)
signOutDoneClearsCart(i) ==
  /\ i \in DOMAIN calls
  /\ calls[i].intent = "signOut"
  /\ currentUser' = "null"
  /\ notices' = Notified("null")
  /\ calls' = RemoveAt(calls, i)
  /\ sev' = Rec("session", SessionStep("signOutDone", calls[i], "", ""), sev)
  /\ items' = <<>>
  /\ UNCHANGED <<user, userRole, loading, accounts, Users, fetches>>
  /\ UNCHANGED <<storage, inflight, track, ev, ref, sumAdded, cleared, healed,
                 orderly, lastPersisted, roundTrip, hydration, stage, rank>>
  /\ UNCHANGED <<read, serviceVars, screenVars>>
signOutDone(i) ==
  /\ i \in DOMAIN calls
  /\ calls[i].intent = "signOut"
  /\ currentUser' = "null"
  /\ notices' = Notified("null")
  /\ calls' = RemoveAt(calls, i)
  /\ sev' = Rec("session", SessionStep("signOutDone", calls[i], "", ""), sev)
  /\ UNCHANGED <<user, userRole, loading, accounts, Users, fetches>>
  /\ UNCHANGED <<read, cartVars, serviceVars, screenVars>>

(* The call an intent waits for rejected: the catch throws what it caught, *)
(* and the intent is over.                                                 *)
callFail(i, error) ==
  /\ i \in DOMAIN calls
  /\ calls' = RemoveAt(calls, i)
  /\ sev' = Rec("session", SessionStep(calls[i].intent \o "Fail", calls[i], error, Rethrown(error)), sev)
  /\ UNCHANGED <<user, userRole, loading, currentUser, accounts, Users, notices, fetches>>
  /\ UNCHANGED <<read, cartVars, serviceVars, screenVars>>

(* The handler of onAuthStateChanged, up to its await or its end. *)
onAuthStateChanged ==
  /\ notices # <<>>
  /\ user' = Head(notices)
  /\ notices' = Tail(notices)
  /\ IF Head(notices) # "null"
     THEN /\ fetches' = Append(fetches, [uid |-> Head(notices)])
          /\ UNCHANGED <<userRole, loading>>
     ELSE /\ userRole' = "null"
          /\ loading' = FALSE
          /\ UNCHANGED fetches
  /\ sev' = Rec("session", SessionStep("onAuthStateChanged", About(Head(notices)), "", ""), sev)
  /\ read' = Rec("session", IF Head(notices) # "null"
                               THEN [read EXCEPT ![Head(notices)] = ""]
                               ELSE read, read)
  /\ UNCHANGED <<currentUser, accounts, Users, calls>>
  /\ UNCHANGED <<cartVars, serviceVars, screenVars>>

(* The handler after its getDoc resolved. *)
getDocDone(i) ==
  /\ i \in DOMAIN fetches
  /\ userRole' = IF Users[fetches[i].uid] = "absent" THEN userRole
                 ELSE IF Users[fetches[i].uid] = "norole" THEN "undefined"
                 ELSE Users[fetches[i].uid]
  /\ loading' = FALSE
  /\ fetches' = RemoveAt(fetches, i)
  /\ sev' = Rec("session", SessionStep("getDocDone", About(fetches[i].uid), "", ""), sev)
  /\ read' = Rec("session", [read EXCEPT ![fetches[i].uid] = Users[fetches[i].uid]], read)
  /\ UNCHANGED <<user, currentUser, accounts, Users, notices, calls>>
  /\ UNCHANGED <<cartVars, serviceVars, screenVars>>

(* The handler after its getDoc rejected: nothing in it catches, it ends there. *)
getDocFail(i, error) ==
  /\ i \in DOMAIN fetches
  /\ fetches' = RemoveAt(fetches, i)
  /\ sev' = Rec("session", SessionStep("getDocFail", About(fetches[i].uid), error, ""), sev)
  /\ UNCHANGED <<user, userRole, loading, currentUser, accounts, Users, notices, calls>>
  /\ UNCHANGED <<read, cartVars, serviceVars, screenVars>>

NextSession ==
  \/ \E uid \in Uids : signIn(uid)
  \/ \E uid \in Uids : signUp(uid)
  \/ signOut
  \/ \E i \in DOMAIN calls : signInDone(i)
  \/ \E i \in DOMAIN calls : signUpCreated(i)
  \/ \E i \in DOMAIN calls : signUpDone(i)
  \/ \E i \in DOMAIN calls : signOutDone(i)
  \/ \E i \in DOMAIN calls, error \in Errors : callFail(i, error)
  \/ onAuthStateChanged
  \/ \E i \in DOMAIN fetches : getDocDone(i)
  \/ \E i \in DOMAIN fetches, error \in Errors : getDocFail(i, error)

(* The profiles the session can find: u1 has an account, with or without a *)
(* profile document; u2 may have an account and has no document yet.       *)
Profiles == { [u \in Uids |-> IF u = "u1" THEN d ELSE "absent"] :
                d \in {"absent", "norole"} \cup Roles }

InitSession ==
  /\ CartProviderOver("session", Absent)
  /\ NoService
  /\ NoScreen
  /\ \E restored \in {"null", "u1"}, existing \in {{"u1"}, Uids}, profiles \in Profiles :
       AuthProviderOver(restored, existing, profiles)

SpecSession == InitSession /\ [][NextSession]_vars

(***************************************************************************)
(* Product service (productService.ts, kept in src/docs/TESTING.md         *)
(* 744-802): three reads of the collection 'Products'.  The client never   *)
(* writes the collection; what it holds is drawn at the start.             *)
(***************************************************************************)

(* The strings of the model in the order of their code units (upper case   *)
(* before lower case), which is the order of Array.prototype.sort() and of *)
(* the store's orderBy on strings and on document ids.                     *)
CodeUnitOrder == <<"", "Drill", "Hand", "Power", "Saw", "d1", "d2", "d3", "hand">>
Place(string) == CHOOSE i \in DOMAIN CodeUnitOrder : CodeUnitOrder[i] = string
Less(a, b) == Place(a) < Place(b)

(* The data of product documents: with and without a name, with a          *)
(* category, an empty one or none, and one that carries an id field of     *)
(* its own.                                                                *)
ProductData ==
  { [name |-> "Saw", category |-> "Hand"],
    [name |-> "Drill", category |-> "Power"],
    [name |-> "Drill", category |-> "hand"],
    [category |-> "Hand"],
    [name |-> "Saw"],
    [name |-> "Saw", category |-> ""],
    [name |-> "Drill", category |-> "Power", id |-> "d3"] }

Doc(data) == [exists |-> TRUE, data |-> data]

(* getProducts is called with a category or without one. *)
Categories == {"undefined", "", "Hand", "hand"}

(* if (category), if (data.category): undefined and "" are falsy. *)
Truthy(string) == string \notin {"undefined", ""}

(* data.category of a document: undefined when the field is missing. *)
Field(data, name) == IF name \in DOMAIN data THEN data[name] ELSE "undefined"

(* { id: doc.id, ...doc.data() }: the fields of the second object are      *)
(* written over those of the first.                                        *)
ObjectSpread(first, second) ==
  [k \in DOMAIN first \cup DOMAIN second |->
     IF k \in DOMAIN second THEN second[k] ELSE first[k]]

(* The smallest of a set of document ids by name, then by id. *)
ByNameThenId(a, b) ==
  \/ Less(productDocs[a].data.name, productDocs[b].data.name)
  \/ productDocs[a].data.name = productDocs[b].data.name /\ Less(a, b)

RECURSIVE OrderedByName(_)
OrderedByName(S) ==
  IF S = {} THEN <<>>
  ELSE LET first == CHOOSE a \in S : \A b \in S \ {a} : ByNameThenId(a, b)
       IN  <<first>> \o OrderedByName(S \ {first})

(* query(collection(db, 'Products'), orderBy('name')[, where('category',   *)
(* '==', category)]): the store orders by a field only the documents that  *)
(* have it; the equality filter is exact.                                  *)
QueryMatchesAnyCase(category) ==
  { d \in DocIds :
      /\ productDocs[d].exists
      /\ "name" \in DOMAIN productDocs[d].data
      /\ Truthy(category) =>
           (\/ Field(productDocs[d].data, "category") = category
            \/ (Field(productDocs[d].data, "category") = "Hand" /\ category = "hand")) }
QueryMatches(category) ==
  { d \in DocIds :
      /\ productDocs[d].exists
      /\ "name" \in DOMAIN productDocs[d].data
      /\ Truthy(category) => (Field(productDocs[d].data, "category") = category) }

getProductsValue(category) ==
  LET docs == OrderedByName(QueryMatches(category))
  IN  [i \in DOMAIN docs |-> ObjectSpread([id |-> docs[i]], productDocs[docs[i]].data)]

Null == [null |-> TRUE]

getProductByIdValue(productId) ==
  IF productDocs[productId].exists
  THEN ObjectSpread([id |-> productId], productDocs[productId].data)
  ELSE Null

(* Array.from(categories).sort() *)
RECURSIVE Sorted(_)
Sorted(S) ==
  IF S = {} THEN <<>>
  ELSE LET first == CHOOSE a \in S : \A b \in S \ {a} : Less(a, b)
       IN  <<first>> \o Sorted(S \ {first})

(* The Set filled by forEach: the truthy categories, each once. *)
getCategoriesKeepsEmpty ==
  Sorted({ productDocs[d].data.category :
             d \in { e \in DocIds : productDocs[e].exists
                                     /\ "category" \in DOMAIN productDocs[e].data } })
getCategoriesValue ==
  Sorted({ productDocs[d].data.category :
             d \in { e \in DocIds : productDocs[e].exists
                                     /\ Truthy(Field(productDocs[e].data, "category")) } })

(* What the caller of a service function gets: the value it returns, or    *)
(* the error the store rejected with, logged and thrown again.             *)
Returned(call, arg, value) ==
  [call |-> call, arg |-> arg, outcome |-> "returned", value |-> value,
   thrown |-> "", logged |-> ""]
Threw(call, arg, error, message) ==
  [call |-> call, arg |-> arg, outcome |-> "threw", value |-> <<>>,
   thrown |-> Rethrown(error), logged |-> message]

getProducts(category) ==
  /\ reply' = Returned("getProducts", category, getProductsValue(category))
  /\ UNCHANGED <<productDocs, cartVars, sessionVars, screenVars>>

getProductsFail(category, error) ==
  /\ reply' = Threw("getProducts", category, error, "Error fetching products:")
  /\ UNCHANGED <<productDocs, cartVars, sessionVars, screenVars>>

getProductById(productId) ==
  /\ reply' = Returned("getProductById", productId, getProductByIdValue(productId))
  /\ UNCHANGED <<productDocs, cartVars, sessionVars, screenVars>>

getProductByIdFail(productId, error) ==
  /\ reply' = Threw("getProductById", productId, error, "Error fetching product:")
  /\ UNCHANGED <<productDocs, cartVars, sessionVars, screenVars>>

getCategories ==
  /\ reply' = Returned("getCategories", "", getCategoriesValue)
  /\ UNCHANGED <<productDocs, cartVars, sessionVars, screenVars>>

getCategoriesFail(error) ==
  /\ reply' = Threw("getCategories", "", error, "Error fetching categories:")
  /\ UNCHANGED <<productDocs, cartVars, sessionVars, screenVars>>

NextService ==
  \/ \E category \in Categories : getProducts(category)
  \/ \E category \in Categories, error \in Errors : getProductsFail(category, error)
  \/ \E productId \in DocIds : getProductById(productId)
  \/ \E productId \in DocIds, error \in Errors : getProductByIdFail(productId, error)
  \/ getCategories
  \/ \E error \in Errors : getCategoriesFail(error)

InitService ==
  /\ CartProviderOver("service", Absent)
  /\ NoSession
  /\ productDocs \in [DocIds -> {NoDoc} \cup { Doc(data) : data \in ProductData }]
  /\ reply = NoReply
  /\ NoScreen

SpecService == InitService /\ [][NextService]_vars

(***************************************************************************)
(* Catalog screen (ProductCatalogScreen, src/app/(tabs)/index.tsx 15-101). *)
(*                                                                         *)
(* The effect of a committed render runs after the commit: loadProducts    *)
(* and loadCategories are called with the selectedCategory of that render. *)
(* A press that arrives before the effect has run finds the effect run     *)
(* first, then renders.  The category buttons are rendered only while the  *)
(* loading flag is false (the early return of the loader).  The getProducts *)
(* calls of overlapping loadProducts complete in any order.               *)
(***************************************************************************)

(* getProducts(selectedCategory || undefined) *)
OrUndefined(category) == IF category \in {"null", ""} THEN "undefined" ELSE category

(* The getProducts calls in flight once loadProducts has been called for a  *)
(* category: the earlier ones are no longer the last.                      *)
loadProductsIssued(category) ==
  Append([i \in DOMAIN productFetches |-> [productFetches[i] EXCEPT !.last = FALSE]],
         [category |-> OrUndefined(category), last |-> TRUE])

(* Room for one more call of each kind. *)
Room == Len(productFetches) < MaxInflight /\ categoryFetches < MaxInflight

(* useEffect(() => { loadProducts(); loadCategories(); }, [selectedCategory]) *)
(* up to the awaits of the two functions.                                  *)
useEffect ==
  /\ effects # <<>>
  /\ Room
  /\ screenLoading' = TRUE
  /\ productFetches' = loadProductsIssued(Head(effects))
  /\ categoryFetches' = categoryFetches + 1
  /\ effects' = Tail(effects)
  /\ settled' = "pending"
  /\ UNCHANGED <<products, categories, selectedCategory>>
  /\ UNCHANGED <<cartVars, sessionVars, serviceVars>>

(* onPress of a category button: setSelectedCategory(selectedCategory ===  *)
(* item ? null : item), and the render it causes.                          *)
onPress(item) ==
  /\ screenLoading = FALSE
  /\ \E i \in DOMAIN categories : categories[i] = item
  /\ selectedCategory' = IF selectedCategory = item THEN "null" ELSE item
  /\ effects' = <<selectedCategory'>>
  /\ IF effects # <<>>
     THEN /\ Room
          /\ screenLoading' = TRUE
          /\ productFetches' = loadProductsIssued(Head(effects))
          /\ categoryFetches' = categoryFetches + 1
          /\ settled' = "pending"
     ELSE UNCHANGED <<screenLoading, productFetches, categoryFetches, settled>>
  /\ UNCHANGED <<products, categories>>
  /\ UNCHANGED <<cartVars, sessionVars, serviceVars>>

(* loadProducts after its getProducts resolved. *)
loadProductsDone(i) ==
  /\ i \in DOMAIN productFetches
  /\ products' = getProductsValue(productFetches[i].category)
  /\ screenLoading' = FALSE
  /\ productFetches' = RemoveAt(productFetches, i)
  /\ settled' = IF productFetches[i].last THEN "returned" ELSE settled
  /\ UNCHANGED <<categories, selectedCategory, effects, categoryFetches>>
  /\ UNCHANGED <<cartVars, sessionVars, serviceVars>>

(* loadProducts after its getProducts rejected: the catch logs, finally. *)
loadProductsFail(i, error) ==
  /\ i \in DOMAIN productFetches
  /\ screenLoading' = FALSE
  /\ productFetches' = RemoveAt(productFetches, i)
  /\ settled' = IF productFetches[i].last THEN "threw" ELSE settled
  /\ UNCHANGED <<products, categories, selectedCategory, effects, categoryFetches>>
  /\ UNCHANGED <<cartVars, sessionVars, serviceVars>>

(* loadCategories after its getCategories resolved. *)
loadCategoriesDone ==
  /\ categoryFetches > 0
  /\ categories' = getCategoriesValue
  /\ categoryFetches' = categoryFetches - 1
  /\ UNCHANGED <<products, selectedCategory, screenLoading, effects, productFetches, settled>>
  /\ UNCHANGED <<cartVars, sessionVars, serviceVars>>

(* loadCategories after its getCategories rejected: the catch logs. *)
loadCategoriesFail(error) ==
  /\ categoryFetches > 0
  /\ categoryFetches' = categoryFetches - 1
  /\ UNCHANGED <<products, categories, selectedCategory, screenLoading, effects,
                 productFetches, settled>>
  /\ UNCHANGED <<cartVars, sessionVars, serviceVars>>

NextScreen ==
  \/ useEffect
  \/ \E item \in Categories : onPress(item)
  \/ \E i \in DOMAIN productFetches : loadProductsDone(i)
  \/ \E i \in DOMAIN productFetches, error \in Errors : loadProductsFail(i, error)
  \/ loadCategoriesDone
  \/ \E error \in Errors : loadCategoriesFail(error)

(* ProductCatalogScreen as mounted over a collection: nothing displayed,   *)
(* loading, the effect of the first render still to run.                   *)
InitScreen ==
  /\ CartProviderOver("screen", Absent)
  /\ NoSession
  /\ productDocs \in [DocIds -> {NoDoc} \cup { Doc(data) : data \in ProductData }]
  /\ reply = NoReply
  /\ products = <<>>
  /\ categories = <<>>
  /\ selectedCategory = "null"
  /\ screenLoading = TRUE
  /\ effects = <<"null">>
  /\ productFetches = <<>>
  /\ categoryFetches = 0
  /\ settled = "none"

SpecScreen == InitScreen /\ [][NextScreen]_vars

(***************************************************************************)
(* The application: CartProvider and AuthProvider mounted side by side,    *)
(* the steps of the two stores interleaved in any order.                   *)
(***************************************************************************)
InitApp ==
  /\ CartProviderOver("both", Absent)
  /\ NoService
  /\ NoScreen
  /\ AuthProviderOver("u1", {"u1"}, [u \in Uids |-> IF u = "u1" THEN "mechanic" ELSE "absent"])

NextApp ==
  \/ Next
  \/ NextSession

SpecApp == InitApp /\ [][NextApp]_vars

(***************************************************************************)
(* Properties of the Cart Store.                                           *)
(***************************************************************************)

(* C1: from a cart with no line for a product, after addToCart calls for   *)
(* it (interleaved with operations on other products only) the cart holds *)
(* exactly one line for it, whose quantity is the sum of the quantities    *)
(* passed.  Checked under SpecSum.                                         *)
C1_OneLineSumOfAdds ==
  \A p \in ProductIds :
    sumAdded[p].n > 0 =>
      \E i \in DOMAIN items :
        /\ Lines(items, p) = {i}
        /\ items[i].quantity = sumAdded[p].sum

(* Two calls for p1 have been summed while p2, set by updateQuantity, sits beside it. *)
C1_Witness ==
  /\ sumAdded["p1"].n = 2
  /\ sumAdded["p1"].sum = 2
  /\ sumAdded["p2"] = Untracked
  /\ Len(items) = 2

(* C2: no two line items of the in-memory collection have the same         *)
(* productId, in every state reached from an empty store or one hydrated   *)
(* from its own snapshot.                                                  *)
C2_UniqueProductId ==
  \A i, j \in DOMAIN items : items[i].productId = items[j].productId => i = j

(* addToCart has just met an existing line in a cart of two lines. *)
C2_Witness ==
  /\ ev.name = "addToCart"
  /\ Lines(ev.before, ev.productId) # {}
  /\ Len(ev.before) = 2
  /\ Len(items) = 2

(* C3: once clearCart has completed (and no cart operation was issued      *)
(* since), the totals are 0 and a store created over the same storage      *)
(* hydrates an empty cart.  Checked under SpecClear.                       *)
C3_ClearedStaysCleared ==
  cleared => /\ totalItems = 0
             /\ totalPrice = 0
             /\ Hydrated(storage) = <<>>

C5_HealsOnNextMutation ==
  (healed.done /\ healed.clean) => storage = Stored(JSONstringify(items))

(* C5 amended: the same when no storage operation at all (write, delete or *)
(* hydration read) was in flight at issue and no other cart operation was  *)
(* issued before the write completed.  Checked under SpecHeal.             *)
C5_HealsWhenAlone ==
  (healed.done /\ healed.alone) => storage = Stored(JSONstringify(items))

(* Such a write has completed over a snapshot that was stale when it was issued. *)
C5_Witness ==
  /\ healed.done
  /\ healed.alone
  /\ healed.stale
  /\ Len(items) = 2

(* C6: if storage operations complete in issue order, then whenever none   *)
(* is in flight the persisted snapshot equals the in-memory collection     *)
(* (absent for an empty one after clearCart).  Checked under SpecOrder.    *)
C6_MirrorConsistent ==
  (orderly /\ inflight = <<>>) => Hydrated(storage) = items

C8_NonPositiveRemoves ==
  (ev.name = "updateQuantity" /\ ev.quantity < 1) =>
     /\ items = removeFromCartUpdater(ev.before, ev.productId)
     /\ inflight[Len(inflight)] =
          [saveCart(items) EXCEPT !.flags = inflight[Len(inflight)].flags]
     /\ \A i \in DOMAIN items : items[i].productId # ev.productId
     /\ \A i \in DOMAIN ev.before :
          ev.before[i].productId # ev.productId => \E j \in DOMAIN items : items[j] = ev.before[i]

(* updateQuantity below 1 has removed one of two lines. *)
C8_Witness ==
  /\ ev.name = "updateQuantity"
  /\ ev.quantity < 1
  /\ Lines(ev.before, ev.productId) # {}
  /\ Len(ev.before) = 2
  /\ Len(items) = 1

(* C9: addToCart on an existing line changes its quantity only: the        *)
(* product snapshot, price included, stays the one first captured, and     *)
(* the line is worth (snapshot price) * (new quantity).                    *)
C9_MergeKeepsSnapshot ==
  ev.name = "addToCart" =>
    \A i \in Lines(ev.before, ev.productId) :
      /\ Len(items) = Len(ev.before)
      /\ items[i].product = ev.before[i].product
      /\ items[i].quantity = ev.before[i].quantity + ev.quantity
      /\ \A j \in DOMAIN items : j # i => items[j] = ev.before[j]
      /\ totalPrice = totalPriceOf(ev.before) + ev.before[i].product.price * ev.quantity

(* The product passed to the merging call carried another price. *)
C9_Witness ==
  /\ ev.name = "addToCart"
  /\ \E i \in Lines(ev.before, ev.productId) : ev.before[i].product.price # ev.price
  /\ Len(items) = 2

(* C10: addToCart, removeFromCart and updateQuantity reject nothing, and   *)
(* when their write fails nothing reaches a caller, the failure is logged  *)
(* and the in-memory collection keeps the result of the mutations.         *)
C10_WriteFailureSwallowed ==
  /\ ev.name \in {"addToCart", "removeFromCart", "updateQuantity", "setItemFail"}
       => ev.rejected = ""
  /\ ev.name = "setItemFail" =>
       /\ items = ev.before
       /\ items = ref
       /\ ev.logged = "Error saving cart:"

(* A write has failed, leaving the slot behind the in-memory collection. *)
C10_Witness ==
  /\ ev.name = "setItemFail"
  /\ items # <<>>
  /\ Hydrated(storage) # items
  /\ inflight = <<>>

(* C11: when the delete of the persisted snapshot fails during clearCart,   *)
(* nothing reaches the caller of clearCart: its promise does not reject.   *)
C11_ClearFailureSwallowed ==
  ev.name = "removeItemFail" => ev.rejected = ""

(* C12 as stated: initialization surfaces no error; when the snapshot is    *)
(* absent, or its read or its deserialization fails, it ends with an empty *)
(* in-memory collection; when a valid snapshot is present the collection   *)
(* becomes that snapshot.  Checked under SpecInit.                         *)
C12_InitEndsEmptyOrHydrated ==
  hydration.phase = "ended" =>
    /\ hydration.surfaced = ""
    /\ hydration.outcome \in {"absent", "rejected", "corrupt"} => items = <<>>
    /\ hydration.outcome = "snapshot" => items = JSONparse(storage.text)

(* C12 amended: in the three failing cases initialization leaves the       *)
(* in-memory collection as it was, which is empty when no cart operation   *)
(* was issued before the read settled.  Checked under SpecInit.            *)
C12_InitKeepsOrHydrates ==
  hydration.phase = "ended" =>
    /\ hydration.surfaced = ""
    /\ hydration.outcome \in {"absent", "rejected", "corrupt"} =>
         /\ items = hydration.before
         /\ hydration.pristine => items = <<>>
    /\ hydration.outcome = "snapshot" => items = JSONparse(storage.text)

(* Initialization has ended over a snapshot that does not parse, logged, with nothing issued before. *)
C12_Witness ==
  /\ hydration.phase = "ended"
  /\ hydration.outcome = "corrupt"
  /\ hydration.pristine
  /\ hydration.logged = "Error loading cart:"
  /\ storage = Stored(Truncated)
  /\ items = <<>>

(* The quantities, and the worth at snapshot prices, of the lines of a     *)
(* cart at the positions in S, added up one position at a time.            *)
RECURSIVE QuantityAt(_, _)
QuantityAt(cart, S) ==
  IF S = {} THEN 0
  ELSE LET i == CHOOSE j \in S : TRUE
       IN  cart[i].quantity + QuantityAt(cart, S \ {i})

RECURSIVE WorthAt(_, _)
WorthAt(cart, S) ==
  IF S = {} THEN 0
  ELSE LET i == CHOOSE j \in S : TRUE
       IN  cart[i].product.price * cart[i].quantity + WorthAt(cart, S \ {i})

(* C13 as stated: in every state totalItems is the sum of the quantities   *)
(* of the lines in memory and totalPrice the sum of (snapshot price) *     *)
(* quantity, and each of them is 0 exactly when the collection is empty.   *)
C13_TotalsZeroIffEmpty ==
  /\ totalItems = QuantityAt(items, DOMAIN items)
  /\ totalPrice = WorthAt(items, DOMAIN items)
  /\ totalItems = 0 <=> items = <<>>
  /\ totalPrice = 0 <=> items = <<>>

(* C13 amended: the same sums; totalItems is 0 exactly when the collection *)
(* is empty, totalPrice is 0 exactly when every line in it (none, for an   *)
(* empty one) has snapshot price 0.                                        *)
C13_TotalsAreSums ==
  /\ totalItems = QuantityAt(items, DOMAIN items)
  /\ totalPrice = WorthAt(items, DOMAIN items)
  /\ totalItems = 0 <=> items = <<>>
  /\ totalPrice = 0 <=> \A i \in DOMAIN items : items[i].product.price = 0
  /\ items = <<>> => totalPrice = 0

(* Two lines in memory, one of them free of charge: 3 items worth 2 * 20. *)
C13_Witness ==
  /\ Len(items) = 2
  /\ totalItems = 3
  /\ totalPrice = 40
  /\ \E i \in DOMAIN items : items[i].product.price = 0

(* C14: with every addToCart quantity at least 1 and hydration from        *)
(* snapshots that satisfy it, every line in memory has an integer quantity *)
(* of at least 1 in every state, whatever integers (0 and negatives        *)
(* included) updateQuantity receives.                                      *)
C14_QuantitiesAtLeastOne ==
  \A i \in DOMAIN items : items[i].quantity \in Int /\ items[i].quantity >= 1

(* updateQuantity with a negative quantity has removed a line and left the other, of quantity 2. *)
C14_Witness ==
  /\ ev.name = "updateQuantity"
  /\ ev.quantity = 0 - 1
  /\ Len(ev.before) = 2
  /\ Len(items) = 1
  /\ items[1].quantity = 2

(* C15: updateQuantity(id, q) with q >= 1 sets the quantity of the line    *)
(* for id to q, whatever it was, and leaves its product snapshot and every *)
(* other line as they were; with no line for id the collection is          *)
(* unchanged, no line is created and nothing is rejected.                  *)
C15_UpdateSetsQuantity ==
  (ev.name = "updateQuantity" /\ ev.quantity >= 1) =>
     /\ ev.rejected = ""
     /\ Len(items) = Len(ev.before)
     /\ \A i \in DOMAIN items :
          IF ev.before[i].productId = ev.productId
          THEN /\ items[i].quantity = ev.quantity
               /\ items[i].productId = ev.productId
               /\ items[i].product = ev.before[i].product
          ELSE items[i] = ev.before[i]
     /\ Lines(ev.before, ev.productId) = {} => items = ev.before

(* updateQuantity has brought the second of two lines from 2 down to 1. *)
C15_Witness ==
  /\ ev.name = "updateQuantity"
  /\ ev.quantity = 1
  /\ Len(ev.before) = 2
  /\ ev.before[2].productId = ev.productId
  /\ ev.before[2].quantity = 2
  /\ items[2].quantity = 1

(* C16: removeFromCart(id) removes the line for id and leaves every other  *)
(* line as it was; with no line for id the collection is unchanged and     *)
(* nothing is rejected.                                                    *)
C16_RemoveOnlyThatLine ==
  ev.name = "removeFromCart" =>
     /\ ev.rejected = ""
     /\ Lines(items, ev.productId) = {}
     /\ Len(items) = Len(ev.before) - Cardinality(Lines(ev.before, ev.productId))
     /\ \A i \in DOMAIN ev.before :
          ev.before[i].productId # ev.productId => \E j \in DOMAIN items : items[j] = ev.before[i]
     /\ Lines(ev.before, ev.productId) = {} => items = ev.before

(* removeFromCart has removed the first of two lines and kept the second. *)
C16_Witness ==
  /\ ev.name = "removeFromCart"
  /\ Len(ev.before) = 2
  /\ ev.before[1].productId = ev.productId
  /\ items = <<ev.before[2]>>

(* C17: with product p1 priced 9.99 (999 cents) and an empty cart,          *)
(* addToCart(p1, 2) gives totalItems 2 and totalPrice 19.98; then          *)
(* addToCart(p1, 3) gives one line of quantity 5, totalItems 5 and         *)
(* totalPrice 49.95; then updateQuantity("p1", 1) gives quantity 1 and     *)
(* totalPrice 9.99; then removeFromCart("p1") gives an empty collection.   *)
(* Checked under SpecWalk.                                                 *)
C17_WalkTotals ==
  /\ stage = 1 => /\ Len(items) = 1
                  /\ totalItems = 2
                  /\ totalPrice = 1998
  /\ stage = 2 => /\ Len(items) = 1
                  /\ items[1].quantity = 5
                  /\ totalItems = 5
                  /\ totalPrice = 4995
  /\ stage = 3 => /\ Len(items) = 1
                  /\ items[1].quantity = 1
                  /\ totalItems = 1
                  /\ totalPrice = 999
  /\ stage = 4 => items = <<>>

(* The four steps of the walk have been made in a row. *)
C17_Witness ==
  /\ stage = 4
  /\ ref = <<>>
  /\ totalPrice = 0

(* C18: clearCart empties the in-memory collection and deletes the key     *)
(* itself: when it completes with no other storage operation in flight,    *)
(* the slot is absent, not a serialized empty array.                       *)
C18_ClearDeletesKey ==
  /\ ev.name = "clearCart" =>
       /\ items = <<>>
       /\ inflight[Len(inflight)].kind = "remove"
  /\ (ev.name = "removeItemDone" /\ inflight = <<>>) =>
       /\ ~storage.present
       /\ storage # Stored(JSONstringify(<<>>))

(* clearCart has completed, alone, over a slot that held a snapshot. *)
C18_Witness ==
  /\ ev.name = "removeItemDone"
  /\ ev.stored
  /\ ev.pending = 1
  /\ inflight = <<>>
  /\ ~storage.present
  /\ items = <<>>

(* C19: every addToCart, removeFromCart and updateQuantity call issues one *)
(* write whose payload is the whole in-memory collection the call results  *)
(* in, calls that change nothing included.                                 *)
C19_EveryMutationWritesAll ==
  ev.name \in {"addToCart", "removeFromCart", "updateQuantity"} =>
     /\ Len(inflight) = ev.pending + 1
     /\ inflight[Len(inflight)].kind = "set"
     /\ inflight[Len(inflight)].text = JSONstringify(items)

(* removeFromCart for a product with no line has issued the write of the   *)
(* unchanged one-line collection next to the same write still in flight.   *)
C19_Witness ==
  /\ ev.name = "removeFromCart"
  /\ Lines(ev.before, ev.productId) = {}
  /\ items = ev.before
  /\ Len(items) = 1
  /\ Len(inflight) = 2
  /\ inflight[1].kind = "set"
  /\ inflight[1].text = inflight[2].text

C30_MutationSurvivesHydration ==
  (hydration.phase = "ended" /\ ~hydration.pristine) =>
     \A i \in DOMAIN hydration.before : \E j \in DOMAIN items : items[j] = hydration.before[i]

(***************************************************************************)
(* Properties of the Session Store.                                        *)
(***************************************************************************)

(* C22: whenever the latest identity-change notification carried no        *)
(* identity and has been handled, the role is none, also when the getDoc   *)
(* started for an earlier notification completes afterwards; and handling  *)
(* a notification without identity starts no getDoc.  Checked under        *)
(* SpecSession.                                                            *)
C22_SignedOutHasNoRole ==
  /\ (notices = <<>> /\ user = "null") => IsNone(userRole)
  /\ (sev.name = "onAuthStateChanged" /\ sev.uid = "null") => Len(fetches) = sev.fetching

(* C23: when the handler of a notification for an identity completes and   *)
(* the profile document of that identity, or its role field, is absent,    *)
(* the role is none, whatever it was before.  Checked under SpecSession.   *)
C23_NoProfileMeansNoRole ==
  (sev.name = "getDocDone" /\ Users[sev.uid] \in {"absent", "norole"}) => IsNone(userRole)

(* C24: when the call that signIn, signUp or signOut waits for rejects, the *)
(* caller receives the very error it rejected with, and the intent makes   *)
(* no second attempt: each of its external calls is made at most once.     *)
(* Checked under SpecSession.                                              *)
C24_FailuresRethrownOnce ==
  /\ sev.name \in {"signInFail", "signUpFail", "signOutFail"} =>
       /\ sev.thrown \in Errors
       /\ sev.surfaced = sev.thrown
       /\ sev.auth + sev.doc >= 1
  /\ sev.auth <= 1 /\ sev.doc <= 1
  /\ \A i \in DOMAIN calls : calls[i].auth <= 1 /\ calls[i].doc <= 1

(* signUp has failed in its setDoc: the account is there, its profile is not. *)
C24_Witness ==
  /\ sev.name = "signUpFail"
  /\ sev.doc = 1
  /\ sev.thrown = "permission-denied"
  /\ sev.surfaced = "permission-denied"
  /\ sev.uid \in accounts
  /\ Users[sev.uid] = "absent"
  /\ calls = <<>>

(* C25: when signUp returns successfully the account exists and the        *)
(* profile document of the new identity exists with role 'mechanic'; the   *)
(* only step that changes a profile document is that write, so signUp      *)
(* writes no other role and signIn and signOut write nothing.  Checked     *)
(* under SpecSession.                                                      *)
C25_SignUpWritesMechanic ==
  /\ sev.name = "signUpDone" =>
       /\ sev.uid \in accounts
       /\ Users[sev.uid] = "mechanic"
  /\ Users # sev.docs =>
       /\ sev.name = "signUpDone"
       /\ Users = [sev.docs EXCEPT ![sev.uid] = "mechanic"]

(* signUp has returned for u2, whose profile did not exist before. *)
C25_Witness ==
  /\ sev.name = "signUpDone"
  /\ sev.uid = "u2"
  /\ sev.docs["u2"] = "absent"
  /\ Users["u2"] = "mechanic"
  /\ "u2" \in accounts

(* Every notification has been delivered and every handler has finished. *)
HandlersOver == notices = <<>> /\ fetches = <<>>

(* C31: when all notification handlers have finished, and the handler of   *)
(* the most recently notified identity read a role from the profile        *)
(* document of that identity, which still holds it, the session role is    *)
(* that role, in whatever order the getDocs of overlapping handlers        *)
(* completed.  Checked under SpecSession.                                  *)
C31_RoleOfLatestIdentity ==
  (/\ HandlersOver
   /\ user # "null"
   /\ Users[user] \in Roles
   /\ read[user] = Users[user]) => userRole = Users[user]

(* C32: after a successful signUp of u2 (the account created and signed    *)
(* in, its notification handled and the getDoc of the handler completed,   *)
(* the profile written, signUp returned) and with nothing left under way,  *)
(* the session role is 'mechanic'; in such a state no handler is left to   *)
(* set it later.  Checked under SpecSession.                               *)
C32_SignedUpIsMechanic ==
  (/\ HandlersOver
   /\ calls = <<>>
   /\ currentUser = "u2"
   /\ user = "u2"
   /\ Users["u2"] = DefaultRole
   /\ read["u2"] # "") => userRole = DefaultRole

(* C33: once the first notification has been delivered and its handler has *)
(* finished, also by the rejection of its getDoc, loading is false; with   *)
(* nothing under way no later step sets it.  Checked under SpecSession.    *)
C33_LoadingEnds ==
  (HandlersOver /\ calls = <<>>) => loading = FALSE

(***************************************************************************)
(* Properties of the product service.                                      *)
(***************************************************************************)

(* The documents of the collection that exist. *)
Existing == { d \in DocIds : productDocs[d].exists }

(* C26: getProductById(id) returns null and raises nothing when no product *)
(* document with that id exists; when one exists it returns the data of    *)
(* that document with id set to the requested id; what it throws is the    *)
(* failure of the store, unchanged.  Checked under SpecService.            *)
C26_ByIdReturnsRequestedId ==
  reply.call = "getProductById" =>
    /\ reply.outcome = "returned" =>
         IF productDocs[reply.arg].exists
         THEN /\ reply.value.id = reply.arg
              /\ \A k \in DOMAIN productDocs[reply.arg].data \ {"id"} :
                    reply.value[k] = productDocs[reply.arg].data[k]
         ELSE reply.value = Null
    /\ reply.outcome = "threw" => reply.thrown \in Errors

(* C27: getCategories returns every category tag that is present and not   *)
(* empty on some product document, each exactly once, nothing else, in     *)
(* ascending order; documents without a category contribute nothing.       *)
(* Checked under SpecService.                                              *)
C27_CategoriesDistinctSorted ==
  (reply.call = "getCategories" /\ reply.outcome = "returned") =>
    /\ { reply.value[i] : i \in DOMAIN reply.value }
         = { productDocs[d].data.category :
               d \in { e \in Existing : /\ "category" \in DOMAIN productDocs[e].data
                                        /\ productDocs[e].data.category # "" } }
    /\ \A i, j \in DOMAIN reply.value : i < j => Less(reply.value[i], reply.value[j])

(* Two documents carry 'Hand', a third 'hand': two tags come back, the     *)
(* upper-case one first.                                                   *)
C27_Witness ==
  /\ reply.call = "getCategories"
  /\ reply.outcome = "returned"
  /\ reply.value = <<"Hand", "hand">>
  /\ Cardinality({ d \in Existing : Field(productDocs[d].data, "category") = "Hand" }) = 2

(* The documents a call of getProducts is about: those whose category is   *)
(* the one asked for, or all of them when none (or an empty one) is asked  *)
(* for.                                                                    *)
Tagged(category) ==
  { d \in Existing :
      category \notin {"undefined", ""} =>
        ("category" \in DOMAIN productDocs[d].data /\ productDocs[d].data.category = category) }

Named(S) == { d \in S : "name" \in DOMAIN productDocs[d].data }

(* value lists exactly the documents of S, each once, by ascending name. *)
ListsByName(value, S) ==
  /\ Len(value) = Cardinality(S)
  /\ \E order \in [DOMAIN value -> S] :
       /\ \A i, j \in DOMAIN value : i # j => order[i] # order[j]
       /\ \A i \in DOMAIN value :
            \A k \in DOMAIN productDocs[order[i]].data :
               /\ k \in DOMAIN value[i]
               /\ value[i][k] = productDocs[order[i]].data[k]
       /\ \A i, j \in DOMAIN value :
            i < j => ~Less(productDocs[order[j]].data.name, productDocs[order[i]].data.name)

(* C28 as stated: getProducts(category) returns exactly the products whose *)
(* category equals the one asked for, or all products when none is asked   *)
(* for, ordered by name.  Violated under SpecService: a document without a *)
(* name field is in no result.                                             *)
C28_ListsAllTagged ==
  (reply.call = "getProducts" /\ reply.outcome = "returned") =>
    /\ Len(reply.value) = Cardinality(Tagged(reply.arg))
    /\ Tagged(reply.arg) = Named(Tagged(reply.arg))
    /\ ListsByName(reply.value, Tagged(reply.arg))

(* C28: getProducts(category) returns exactly the products that have a     *)
(* name field and whose category equals the one asked for (exact match),   *)
(* or all products that have a name field when no category or an empty one *)
(* is asked for, ordered by name.  Checked under SpecService.              *)
C28_ListsNamedTagged ==
  (reply.call = "getProducts" /\ reply.outcome = "returned") =>
    ListsByName(reply.value, Named(Tagged(reply.arg)))

(* 'hand' was asked for while the collection holds a 'Hand', a 'hand' and  *)
(* a document without a name: one product comes back.                      *)
C28_Witness ==
  /\ reply.call = "getProducts"
  /\ reply.outcome = "returned"
  /\ reply.arg = "hand"
  /\ Len(reply.value) = 1
  /\ reply.value[1].category = "hand"
  /\ \E d \in Existing : Field(productDocs[d].data, "category") = "Hand"
  /\ \E d \in Existing : "name" \notin DOMAIN productDocs[d].data

(***************************************************************************)
(* Properties of the two stores side by side.                              *)
(***************************************************************************)

(* C29: the Cart Store and the Session Store are independent: a step of    *)
(* the session (an intent, its completion, a notification handler) leaves  *)
(* the in-memory cart, its persisted snapshot and the storage operations   *)
(* in flight as they are, and a step of the cart leaves identity, role and *)
(* loading flag as they are.  Checked under SpecApp.                       *)
C29_StoresIndependent ==
  [][ /\ (sessionVars' # sessionVars) => UNCHANGED <<items, storage, inflight>>
      /\ (cartVars' # cartVars) => UNCHANGED <<user, userRole, loading, currentUser>> ]_vars

(* u2 has signed up in the place of u1 and its notification has been      *)
(* handled; the cart holds a line and its snapshot is in the slot.         *)
C29_Witness ==
  /\ track = "both"
  /\ user = "u2"
  /\ "u2" \in accounts
  /\ loading = FALSE
  /\ items # <<>>
  /\ storage = Stored(JSONstringify(items))

(***************************************************************************)
(* Properties of the catalog screen.                                       *)
(***************************************************************************)

(* No effect is left to run and no getProducts is in flight. *)
FetchesOver == effects = <<>> /\ productFetches = <<>>

(* C34: on the catalog screen, once every product fetch has completed and  *)
(* the fetch issued last, which is the one for the selected category, has  *)
(* returned, the list displayed is the result for the selected category,   *)
(* in whatever order the overlapping fetches completed; and once fetches   *)
(* have been issued and none is in flight the loading flag is false, also  *)
(* after a failed fetch.  Checked under SpecScreen.                        *)
C34_ListOfSelectedCategory ==
  /\ (FetchesOver /\ settled = "returned") =>
        products = getProductsValue(OrUndefined(selectedCategory))
  /\ (FetchesOver /\ settled # "none") => screenLoading = FALSE

(* The second half of C34 on its own: the loading flag is false once       *)
(* fetches have been issued and none is in flight.                         *)
ScreenLoadingEnds ==
  (FetchesOver /\ settled # "none") => screenLoading = FALSE

====
